---- MODULE Spec2Model ----
(***************************************************************************)
(* A model of antismash/common/pattern_search.py: the compiler that turns  *)
(* a motif pattern string into a chain of Elements (Pattern.__init__ and   *)
(* the parse_* helpers) and the matcher that searches a sequence with it   *)
(* (Element.match_including_following, Element.match_all_possible,         *)
(* Pattern.find, Pattern.find_all).                                        *)
(*                                                                         *)
(* Strings are tuples of one-character strings.  Offsets are the 0-based   *)
(* offsets of the Python code: the character at Python offset k of a       *)
(* string s is s[k + 1].                                                   *)
(***************************************************************************)
EXTENDS Integers, Sequences, FiniteSets, TLC

(***************************************************************************)
(* Bounds of the model.                                                    *)
(***************************************************************************)
\* the longest sequence handed to find / find_all
MaxSeqLen == 3

\* the characters the searched sequences are made of
SeqAlphabet == {"A", "T"}

AMINOS == {"A", "C", "D", "E", "F", "G", "H", "I", "K",
           "L", "M", "N", "P", "Q", "R", "S", "T", "V", "W", "Y"}

Digits == {"0", "1", "2", "3", "4", "5", "6", "7", "8", "9"}

(***************************************************************************)
(* Python string helpers.                                                  *)
(***************************************************************************)
\* s[k] for a Python offset k that is in range
CharAt(s, k) == s[k + 1]

\* s[a:b] for 0 <= a, b <= len(s)
Slice(s, a, b) == SubSeq(s, a + 1, b)

startswith(s, c) == Len(s) > 0 /\ s[1] = c

endswith(s, c) == Len(s) > 0 /\ s[Len(s)] = c

\* s.strip('.'): every leading and trailing period is removed
RECURSIVE lstrip(_, _)
lstrip(s, c) == IF startswith(s, c) THEN lstrip(Tail(s), c) ELSE s

RECURSIVE rstrip(_, _)
rstrip(s, c) == IF endswith(s, c) THEN rstrip(SubSeq(s, 1, Len(s) - 1), c) ELSE s

strip(s, c) == rstrip(lstrip(s, c), c)

\* s.split(c): the pieces between the occurrences of c, in order
RECURSIVE split(_, _)
split(s, c) ==
    IF \A i \in 1..Len(s) : s[i] # c
    THEN <<s>>
    ELSE LET i == CHOOSE j \in 1..Len(s) : s[j] = c /\ \A k \in 1..(j - 1) : s[k] # c
         IN  <<SubSeq(s, 1, i - 1)>> \o split(SubSeq(s, i + 1, Len(s)), c)

\* l[::-1]
reversed(l) == [i \in 1..Len(l) |-> l[Len(l) + 1 - i]]

DigitValue(c) ==
    CASE c = "0" -> 0 [] c = "1" -> 1 [] c = "2" -> 2 [] c = "3" -> 3 [] c = "4" -> 4
      [] c = "5" -> 5 [] c = "6" -> 6 [] c = "7" -> 7 [] c = "8" -> 8 [] c = "9" -> 9

\* int(s) succeeds on the strings of the model's characters that are digits only
IsInt(s) == Len(s) > 0 /\ \A i \in 1..Len(s) : s[i] \in Digits

RECURSIVE int(_)
int(s) == IF Len(s) = 0 THEN 0
          ELSE 10 * int(SubSeq(s, 1, Len(s) - 1)) + DigitValue(s[Len(s)])

(***************************************************************************)
(* Results of the parsing functions: a value, or the exception raised.     *)
(* msg is the fixed head of the exception's message.                       *)
(***************************************************************************)
NoError == [kind |-> "", msg |-> ""]

Raise(kind, msg) == [kind |-> kind, msg |-> msg]

ValueError(msg) == Raise("ValueError", msg)

\* parse_terminus: strips the leading "<" and the trailing ">" of an element
parse_terminus(element) ==
    LET nterm == startswith(element, "<")
        e1    == IF nterm THEN Tail(element) ELSE element
        cterm == endswith(e1, ">")
        e2    == IF cterm THEN SubSeq(e1, 1, Len(e1) - 1) ELSE e1
    IN  [nterm |-> nterm, part |-> e2, cterm |-> cterm]

\* parse_repeats without the check of how many numbers the suffix holds
parse_repeats_any_count(sequence, offset) ==
    IF Len(sequence) - 1 < offset
    THEN [error |-> NoError, min_repeats |-> 1, max_repeats |-> 1]
    ELSE IF CharAt(sequence, offset) # "(" \/ ~endswith(sequence, ")")
    THEN [error |-> ValueError("Brackets do not match"), min_repeats |-> 0, max_repeats |-> 0]
    ELSE LET numbers == split(Slice(sequence, offset + 1, Len(sequence) - 1), ",")
         IN  IF \E i \in 1..Len(numbers) : ~IsInt(numbers[i])
             THEN [error |-> ValueError("Invalid repeat"), min_repeats |-> 0, max_repeats |-> 0]
             ELSE IF Len(numbers) = 1
             THEN [error |-> NoError, min_repeats |-> int(numbers[1]),
                   max_repeats |-> int(numbers[1])]
             ELSE [error |-> NoError, min_repeats |-> int(numbers[1]),
                   max_repeats |-> int(numbers[2])]

\* parse_repeats taking whatever is not a parenthesised suffix for no suffix
parse_repeats_lenient(sequence, offset) ==
    IF Len(sequence) - 1 < offset
    THEN [error |-> NoError, min_repeats |-> 1, max_repeats |-> 1]
    ELSE IF CharAt(sequence, offset) # "(" \/ ~endswith(sequence, ")")
    THEN [error |-> NoError, min_repeats |-> 1, max_repeats |-> 1]
    ELSE LET numbers == split(Slice(sequence, offset + 1, Len(sequence) - 1), ",")
         IN  IF \E i \in 1..Len(numbers) : ~IsInt(numbers[i])
             THEN [error |-> ValueError("Invalid repeat"), min_repeats |-> 0, max_repeats |-> 0]
             ELSE IF ~(1 <= Len(numbers) /\ Len(numbers) <= 2)
             THEN [error |-> ValueError("Invalid repeat"), min_repeats |-> 0, max_repeats |-> 0]
             ELSE IF Len(numbers) = 1
             THEN [error |-> NoError, min_repeats |-> int(numbers[1]),
                   max_repeats |-> int(numbers[1])]
             ELSE [error |-> NoError, min_repeats |-> int(numbers[1]),
                   max_repeats |-> int(numbers[2])]

\* parse_repeats: (min, max) of the repeat suffix that starts at offset
parse_repeats(sequence, offset) ==
    IF Len(sequence) - 1 < offset
    THEN [error |-> NoError, min_repeats |-> 1, max_repeats |-> 1]
    ELSE IF CharAt(sequence, offset) # "(" \/ ~endswith(sequence, ")")
    THEN [error |-> ValueError("Brackets do not match"), min_repeats |-> 0, max_repeats |-> 0]
    ELSE LET numbers == split(Slice(sequence, offset + 1, Len(sequence) - 1), ",")
         IN  IF \E i \in 1..Len(numbers) : ~IsInt(numbers[i])
             THEN [error |-> ValueError("Invalid repeat"), min_repeats |-> 0, max_repeats |-> 0]
             ELSE IF ~(1 <= Len(numbers) /\ Len(numbers) <= 2)
             THEN [error |-> ValueError("Invalid repeat"), min_repeats |-> 0, max_repeats |-> 0]
             ELSE IF Len(numbers) = 1
             THEN [error |-> NoError, min_repeats |-> int(numbers[1]),
                   max_repeats |-> int(numbers[1])]
             ELSE [error |-> NoError, min_repeats |-> int(numbers[1]),
                   max_repeats |-> int(numbers[2])]

\* the outcome of parse_options
AmbiguityOptions(error, options, min_repeats, max_repeats, optional_cterm) ==
    [error |-> error, options |-> options, min_repeats |-> min_repeats,
     max_repeats |-> max_repeats, optional_cterm |-> optional_cterm]

\* the while loop of parse_options, and what follows it without the check
\* that some option was given
RECURSIVE parse_options_loop_allows_empty(_, _, _, _, _)
parse_options_loop_allows_empty(sequence, end, idx, options, optional_c_terminus) ==
    IF idx < Len(sequence) /\ CharAt(sequence, idx) # end
    THEN IF CharAt(sequence, idx) \notin AMINOS
         THEN IF CharAt(sequence, idx) = ">" /\ ~optional_c_terminus
              THEN parse_options_loop_allows_empty(sequence, end, idx + 1, options, TRUE)
              ELSE AmbiguityOptions(ValueError("Invalid amino acid"), {}, 0, 0, FALSE)
         ELSE parse_options_loop_allows_empty(sequence, end, idx + 1,
                                 options \cup {CharAt(sequence, idx)}, optional_c_terminus)
    ELSE IF idx = Len(sequence)
    THEN AmbiguityOptions(ValueError("Brackets do not match"), {}, 0, 0, FALSE)
    ELSE LET repeats == parse_repeats(sequence, idx + 1)
         IN  IF repeats.error # NoError
             THEN AmbiguityOptions(repeats.error, {}, 0, 0, FALSE)
             ELSE AmbiguityOptions(NoError, options, repeats.min_repeats,
                                   repeats.max_repeats, optional_c_terminus)

\* the while loop of parse_options, from Python offset idx on
RECURSIVE parse_options_loop(_, _, _, _, _)
parse_options_loop(sequence, end, idx, options, optional_c_terminus) ==
    IF idx < Len(sequence) /\ CharAt(sequence, idx) # end
    THEN IF CharAt(sequence, idx) \notin AMINOS
         THEN IF CharAt(sequence, idx) = ">" /\ ~optional_c_terminus
              THEN parse_options_loop(sequence, end, idx + 1, options, TRUE)
              ELSE AmbiguityOptions(ValueError("Invalid amino acid"), {}, 0, 0, FALSE)
         ELSE parse_options_loop(sequence, end, idx + 1,
                                 options \cup {CharAt(sequence, idx)}, optional_c_terminus)
    ELSE IF idx = Len(sequence)
    THEN AmbiguityOptions(ValueError("Brackets do not match"), {}, 0, 0, FALSE)
    ELSE LET repeats == parse_repeats(sequence, idx + 1)
         IN  IF repeats.error # NoError
             THEN AmbiguityOptions(repeats.error, {}, 0, 0, FALSE)
             ELSE IF options = {}
             THEN AmbiguityOptions(ValueError("No valid options provided"), {}, 0, 0, FALSE)
             ELSE AmbiguityOptions(NoError, options, repeats.min_repeats,
                                   repeats.max_repeats, optional_c_terminus)

\* parse_options: the options, the repeats and the optional end of a class
parse_options(sequence, start, end) ==
    IF CharAt(sequence, 0) # start
    THEN AmbiguityOptions(ValueError("Brackets do not match"), {}, 0, 0, FALSE)
    ELSE parse_options_loop(sequence, end, 1, {}, FALSE)

(***************************************************************************)
(* Elements.  The chain is the list Pattern.elements without its leading   *)
(* None: elements[k] here is elements[k] of the code, built tail first, so *)
(* the last element of the pattern is elements[1] and the head is the last *)
(* entry.  next_element is the index of the successor, 0 for None.         *)
(***************************************************************************)
None == 0

NewElement(kind, amino, options, optional_c_terminus, min_repeats, max_repeats, next_element, nterm, cterm) ==
    [kind |-> kind, amino |-> amino, options |-> options,
     optional_c_terminus |-> optional_c_terminus,
     min_repeats |-> min_repeats, max_repeats |-> max_repeats,
     next_element |-> next_element, nterm |-> nterm, cterm |-> cterm]

\* Element.__init__ without the check of the successor's nterm
Element_init_no_nterm_check(elements, next_element, nterm, cterm) ==
    IF cterm /\ next_element # None
    THEN ValueError("Invalid pattern")
    ELSE NoError

\* Element.__init__ without the check of cterm against the successor
Element_init_no_cterm_check(elements, next_element, nterm, cterm) ==
    IF next_element # None /\ elements[next_element].nterm
    THEN ValueError("Invalid pattern")
    ELSE NoError

\* Element.__init__: the two checks on the successor and the anchors
Element_init(elements, next_element, nterm, cterm) ==
    IF next_element # None /\ elements[next_element].nterm
    THEN ValueError("Invalid pattern")
    ELSE IF cterm /\ next_element # None
    THEN ValueError("Invalid pattern")
    ELSE NoError

Constructed(error, element) == [error |-> error, element |-> element]

NoElement == NewElement("", "", {}, FALSE, 0, 0, None, FALSE, FALSE)

\* SimpleAmino.__init__
SimpleAmino(element, elements, next_element, nterm, cterm) ==
    IF CharAt(element, 0) \notin AMINOS
    THEN Constructed(ValueError("Invalid amino acid"), NoElement)
    ELSE LET repeats == parse_repeats(element, 1)
             base    == Element_init(elements, next_element, nterm, cterm)
         IN  IF repeats.error # NoError THEN Constructed(repeats.error, NoElement)
             ELSE IF base # NoError THEN Constructed(base, NoElement)
             ELSE Constructed(NoError,
                      NewElement("SimpleAmino", CharAt(element, 0), {}, FALSE,
                                 repeats.min_repeats, repeats.max_repeats,
                                 next_element, nterm, cterm))

\* AnyAmino.__init__
AnyAmino(element, elements, next_element, nterm, cterm) ==
    IF CharAt(element, 0) # "x"
    THEN Constructed(ValueError("Attempting to use defined amino acid as AnyAmino"), NoElement)
    ELSE LET repeats == parse_repeats(element, 1)
             base    == Element_init(elements, next_element, nterm, cterm)
         IN  IF repeats.error # NoError THEN Constructed(repeats.error, NoElement)
             ELSE IF base # NoError THEN Constructed(base, NoElement)
             ELSE Constructed(NoError,
                      NewElement("AnyAmino", "", {}, FALSE,
                                 repeats.min_repeats, repeats.max_repeats,
                                 next_element, nterm, cterm))

\* MultipleAmino.__init__
MultipleAmino(element, elements, next_element, nterm, cterm) ==
    LET parsed_options == parse_options(element, "[", "]")
        base           == Element_init(elements, next_element, nterm, cterm)
    IN  IF parsed_options.error # NoError THEN Constructed(parsed_options.error, NoElement)
        ELSE IF base # NoError THEN Constructed(base, NoElement)
        ELSE Constructed(NoError,
                 NewElement("MultipleAmino", "", parsed_options.options,
                            parsed_options.optional_cterm,
                            parsed_options.min_repeats, parsed_options.max_repeats,
                            next_element, nterm, cterm))

\* NegatedAmino.__init__
NegatedAmino(element, elements, next_element, nterm, cterm) ==
    LET parsed_options == parse_options(element, "{", "}")
        base           == Element_init(elements, next_element, nterm, cterm)
    IN  IF parsed_options.error # NoError THEN Constructed(parsed_options.error, NoElement)
        ELSE IF base # NoError THEN Constructed(base, NoElement)
        ELSE Constructed(NoError,
                 NewElement("NegatedAmino", "", parsed_options.options, FALSE,
                            parsed_options.min_repeats, parsed_options.max_repeats,
                            next_element, nterm, cterm))

\* the body of the for loop of Pattern.__init__ for one part: the element
\* appended to elements, or the exception
compile_part(raw, elements) ==
    LET t    == parse_terminus(raw)
        part == t.part
        next == Len(elements)   \* self.elements[-1]: None while the list is [None]
    IN  IF Len(part) = 0
        THEN Constructed(Raise("IndexError", "string index out of range"), NoElement)
        ELSE IF CharAt(part, 0) \in AMINOS
        THEN SimpleAmino(part, elements, next, t.nterm, t.cterm)
        ELSE IF CharAt(part, 0) = "x"
        THEN AnyAmino(part, elements, next, t.nterm, t.cterm)
        ELSE IF CharAt(part, 0) = "["
        THEN MultipleAmino(part, elements, next, t.nterm, t.cterm)
        ELSE IF CharAt(part, 0) = "{"
        THEN NegatedAmino(part, elements, next, t.nterm, t.cterm)
        ELSE Constructed(ValueError("Invalid pattern"), NoElement)

Compiled(error, elements) == [error |-> error, elements |-> elements]

\* the for loop of Pattern.__init__ over the reversed parts, from part i on
RECURSIVE compile_loop(_, _, _)
compile_loop(parts, i, elements) ==
    IF i > Len(parts)
    THEN Compiled(NoError, elements)
    ELSE LET c == compile_part(parts[i], elements)
         IN  IF c.error # NoError
             THEN Compiled(c.error, <<>>)
             ELSE compile_loop(parts, i + 1, Append(elements, c.element))

\* Pattern.__init__: the chain of a pattern string, or the exception
Pattern_init(pattern_string) ==
    IF ~endswith(pattern_string, ".")
    THEN Compiled(Raise("AssertionError", ""), <<>>)
    ELSE compile_loop(reversed(split(strip(pattern_string, "."), "-")), 1, <<>>)

(***************************************************************************)
(* The matcher.  An element is named by its index self in the chain.       *)
(***************************************************************************)
\* Match(hit, distance); the field distance is the attribute _distance, which
\* a Match without a hit keeps as it was given (-1 by default)
Match(hit, distance) == [hit |-> hit, distance |-> distance]

\* the property Match.distance that returns _distance whether or not there is a hit
Match_distance_unguarded(m) == [error |-> NoError, value |-> m.distance]

\* the property Match.distance: the distance of a hit, ValueError otherwise
Match_distance(m) ==
    IF ~m.hit
    THEN [error |-> ValueError("Cannot access distance without a match"), value |-> 0]
    ELSE [error |-> NoError, value |-> m.distance]

MatchLocation(start, end) == [start |-> start, end |-> end]

\* offset_ok letting a start-anchored element match at offset 0 only
offset_ok_nterm_at_zero(e, sequence, offset) ==
    IF ~(0 <= offset /\ offset < Len(sequence)) THEN FALSE
    ELSE IF e.nterm /\ offset >= 1 THEN FALSE
    ELSE IF e.cterm /\ offset < Len(sequence) - e.max_repeats THEN FALSE
    ELSE TRUE

\* Element.offset_ok
offset_ok(e, sequence, offset) ==
    IF ~(0 <= offset /\ offset < Len(sequence)) THEN FALSE
    ELSE IF e.nterm /\ offset >= e.max_repeats THEN FALSE
    ELSE IF e.cterm /\ offset < Len(sequence) - e.max_repeats THEN FALSE
    ELSE TRUE

\* SimpleAmino.match
SimpleAmino_match(e, sequence, offset) ==
    Match(offset_ok(e, sequence, offset) /\ CharAt(sequence, offset) = e.amino, 1)

\* AnyAmino.match
AnyAmino_match(e, sequence, offset) ==
    Match(offset_ok(e, sequence, offset), 1)

\* MultipleAmino.match taking every offset from len(sequence) on for the end
MultipleAmino_match_past_end(e, sequence, offset) ==
    IF ~(0 <= offset /\ offset < Len(sequence))
    THEN Match(e.optional_c_terminus /\ 0 <= offset /\ offset >= Len(sequence), 0)
    ELSE Match(offset_ok(e, sequence, offset) /\ CharAt(sequence, offset) \in e.options, 1)

\* MultipleAmino.match
MultipleAmino_match(e, sequence, offset) ==
    IF ~(0 <= offset /\ offset < Len(sequence))
    THEN Match(e.optional_c_terminus /\ 0 <= offset /\ offset <= Len(sequence), 0)
    ELSE Match(offset_ok(e, sequence, offset) /\ CharAt(sequence, offset) \in e.options, 1)

\* NegatedAmino.match
NegatedAmino_match(e, sequence, offset) ==
    Match(offset_ok(e, sequence, offset) /\ CharAt(sequence, offset) \notin e.options, 1)

\* self.match(sequence, offset), dispatched on the class of the element
match(e, sequence, offset) ==
    CASE e.kind = "SimpleAmino"   -> SimpleAmino_match(e, sequence, offset)
      [] e.kind = "AnyAmino"      -> AnyAmino_match(e, sequence, offset)
      [] e.kind = "MultipleAmino" -> MultipleAmino_match(e, sequence, offset)
      [] e.kind = "NegatedAmino"  -> NegatedAmino_match(e, sequence, offset)

\* the test both searches make before trying a repeat count: it skips the
\* count when the rest of the sequence is shorter than repeat - 1
too_long(sequence, offset, repeat) == (Len(sequence) - offset) < repeat - 1

\* the inner for loop looking at the first of the repeat positions only
repeat_matches_first_only(e, sequence, offset, repeat) ==
    match(e, sequence, offset).hit

\* the inner for loop: self.match holds at each of the repeat positions
repeat_matches(e, sequence, offset, repeat) ==
    \A idx \in offset..(offset + repeat - 1) : match(e, sequence, idx).hit

\* match_including_following trying the repeat counts from the least one up:
\* the iteration that is `repeat` in the code tries min + max - repeat
RECURSIVE match_least_first(_, _, _, _, _)
match_least_first(elements, self, sequence, offset, repeat) ==
    LET e     == elements[self]
        count == e.min_repeats + e.max_repeats - repeat
    IN  IF repeat < e.min_repeats
        THEN Match(FALSE, -1)
        ELSE IF count # 0 /\ too_long(sequence, offset, count)
        THEN match_least_first(elements, self, sequence, offset, repeat - 1)
        ELSE IF count # 0 /\ ~repeat_matches(e, sequence, offset, count)
        THEN match_least_first(elements, self, sequence, offset, repeat - 1)
        ELSE IF e.next_element # None
        THEN LET nextmatch == match_least_first(elements, e.next_element,
                                  sequence, offset + count,
                                  elements[e.next_element].max_repeats)
             IN  IF nextmatch.hit
                 THEN Match(TRUE, count + Match_distance(nextmatch).value)
                 ELSE match_least_first(elements, self, sequence, offset, repeat - 1)
        ELSE Match(TRUE, count)

\* match_including_following giving up when the successor fails after the
\* largest repeat count this element matches
RECURSIVE match_without_fallback(_, _, _, _, _)
match_without_fallback(elements, self, sequence, offset, repeat) ==
    LET e == elements[self]
    IN  IF repeat < e.min_repeats
        THEN Match(FALSE, -1)
        ELSE IF repeat # 0 /\ too_long(sequence, offset, repeat)
        THEN match_without_fallback(elements, self, sequence, offset, repeat - 1)
        ELSE IF repeat # 0 /\ ~repeat_matches(e, sequence, offset, repeat)
        THEN match_without_fallback(elements, self, sequence, offset, repeat - 1)
        ELSE IF e.next_element # None
        THEN LET nextmatch == match_without_fallback(elements, e.next_element,
                                  sequence, offset + repeat,
                                  elements[e.next_element].max_repeats)
             IN  IF nextmatch.hit
                 THEN Match(TRUE, repeat + Match_distance(nextmatch).value)
                 ELSE Match(FALSE, -1)
        ELSE Match(TRUE, repeat)

\* Element.match_including_following: the for loop from repeat count repeat down
RECURSIVE match_including_following_from(_, _, _, _, _)
match_including_following_from(elements, self, sequence, offset, repeat) ==
    LET e == elements[self]
    IN  IF repeat < e.min_repeats
        THEN Match(FALSE, -1)
        ELSE IF repeat # 0 /\ too_long(sequence, offset, repeat)
        THEN match_including_following_from(elements, self, sequence, offset, repeat - 1)
        ELSE IF repeat # 0 /\ ~repeat_matches(e, sequence, offset, repeat)
        THEN match_including_following_from(elements, self, sequence, offset, repeat - 1)
        ELSE IF e.next_element # None
        THEN LET nextmatch == match_including_following_from(elements, e.next_element,
                                  sequence, offset + repeat,
                                  elements[e.next_element].max_repeats)
             IN  IF nextmatch.hit
                 THEN Match(TRUE, repeat + Match_distance(nextmatch).value)
                 ELSE match_including_following_from(elements, self, sequence, offset,
                                                     repeat - 1)
        ELSE Match(TRUE, repeat)

match_including_following(elements, self, sequence, offset) ==
    match_including_following_from(elements, self, sequence, offset,
                                   elements[self].max_repeats)

\* the last element reporting every location it matched
location_fits_always(sequence, offset, repeat) == TRUE

\* the last element reports a location only when it ends inside the sequence
location_fits(sequence, offset, repeat) == offset + repeat <= Len(sequence)

\* match_all_possible keeping only what the largest matching repeat count gives
RECURSIVE match_all_possible_greedy(_, _, _, _, _)
match_all_possible_greedy(elements, self, sequence, offset, repeat) ==
    LET e    == elements[self]
        rest == match_all_possible_greedy(elements, self, sequence, offset, repeat - 1)
    IN  IF repeat < e.min_repeats
        THEN <<>>
        ELSE IF repeat # 0 /\ too_long(sequence, offset, repeat)
        THEN rest
        ELSE IF repeat # 0 /\ ~repeat_matches(e, sequence, offset, repeat)
        THEN rest
        ELSE IF e.next_element # None
        THEN LET nextmatch == match_all_possible_greedy(elements, e.next_element,
                                  sequence, offset + repeat,
                                  elements[e.next_element].max_repeats)
                 newmatch  == [i \in 1..Len(nextmatch) |->
                                  MatchLocation(offset, nextmatch[i].end)]
             IN  IF newmatch # <<>> THEN newmatch ELSE rest
        ELSE IF location_fits(sequence, offset, repeat)
        THEN <<MatchLocation(offset, offset + repeat)>>
        ELSE rest

\* Element.match_all_possible: the for loop from repeat count repeat down;
\* the value is what the iterations from there on add to results
RECURSIVE match_all_possible_from(_, _, _, _, _)
match_all_possible_from(elements, self, sequence, offset, repeat) ==
    LET e    == elements[self]
        rest == match_all_possible_from(elements, self, sequence, offset, repeat - 1)
    IN  IF repeat < e.min_repeats
        THEN <<>>
        ELSE IF repeat # 0 /\ too_long(sequence, offset, repeat)
        THEN rest
        ELSE IF repeat # 0 /\ ~repeat_matches(e, sequence, offset, repeat)
        THEN rest
        ELSE IF e.next_element # None
        THEN LET nextmatch == match_all_possible_from(elements, e.next_element,
                                  sequence, offset + repeat,
                                  elements[e.next_element].max_repeats)
                 newmatch  == [i \in 1..Len(nextmatch) |->
                                  MatchLocation(offset, nextmatch[i].end)]
             IN  newmatch \o rest
        ELSE IF location_fits(sequence, offset, repeat)
        THEN <<MatchLocation(offset, offset + repeat)>> \o rest
        ELSE rest

match_all_possible(elements, self, sequence, offset) ==
    match_all_possible_from(elements, self, sequence, offset, elements[self].max_repeats)

\* the assertion that closes match_all_possible.  A location of a successor
\* keeps its end in every caller, so the assertion fails in some call of the
\* recursion exactly when it fails on the list the outermost call returns.
overlong_slice(locations, sequence) ==
    \E i \in 1..Len(locations) : locations[i].end > Len(sequence)

(***************************************************************************)
(* The inputs: pattern strings of one or two elements joined by "-" and    *)
(* closed by ".", each element an optional "<", a body, an optional repeat *)
(* suffix and an optional ">"; pattern strings of one or two elements with *)
(* an exact repeat count; pattern strings of one element with an unusual   *)
(* repeat suffix or a class with unusual brackets; pattern strings of      *)
(* three elements out of a smaller set; and the sequences over SeqAlphabet *)
(* of at most MaxSeqLen characters, with one sequence of a foreign         *)
(* character.                                                              *)
(***************************************************************************)
WellFormedBodies ==
    { <<"A">>, <<"x">>, <<"[", "A", "T", "]">>, <<"[", "T", ">", "]">>, <<"{", "A", "}">> }

MalformedBodies ==
    { <<>>, <<"*">>, <<"A", "A">>, <<"[", ">", "]">>, <<"[", "A">>,
      <<"[", "A", "B", "]">>, <<"{", "A", "B", "}">> }

RepeatSuffixes ==
    { <<>>, <<"(", "0", ",", "1", ")">>, <<"(", "1", ",", "2", ")">> }

ElementStrings ==
    { lt \o body \o rep \o gt :
        lt \in {<<>>, <<"<">>}, body \in WellFormedBodies \cup MalformedBodies,
        rep \in RepeatSuffixes, gt \in {<<>>, <<">">>} }

\* the elements the patterns of three elements are made of
ChainElementStrings ==
    { <<"A">>, <<"A", "(", "1", ",", "2", ")">>, <<"x", "(", "0", ",", "1", ")">>,
      <<"[", "T", ">", "]">> }

\* the elements with an exact repeat count the patterns of fixed length are made of
ExactElementStrings ==
    { <<"A">>, <<"x">>, <<"A", "(", "2", ")">>, <<"x", "(", "2", ")">>,
      <<"{", "A", "}", "(", "2", ")">> }

\* repeat suffixes with the bounds in reverse order, with a zero count, and
\* suffixes that are no repeat specification
OddRepeatSuffixes ==
    { <<"(", "2", ",", "1", ")">>, <<"(", "0", ")">>, <<"(", "1", ",", "2", ",", "3", ")">>,
      <<"(", ")">>, <<"(", "A", ")">>, <<"(", "1">>, <<"1", ")">>, <<"(", "1", ",", ")">>,
      <<"(", ",", "1", ")">>, <<"(", "1", ")", "(", "2", ")">> }

\* classes with an empty body, without a closing bracket or closed by the
\* bracket of the other kind
BracketElementStrings ==
    { <<"[", "]">>, <<"{", "}">>, <<"[", "]", "(", "2", ")">>, <<"{", "A">>,
      <<"{", "A", "]">>, <<"[", "A", "}">>, <<"[", "A", "T", "}">>, <<"{", ">", "}">> }

OddRepeatElementStrings ==
    { body \o suffix : body \in { <<"A">>, <<"x">> }, suffix \in OddRepeatSuffixes }

PatternStrings ==
    { a \o <<".">> : a \in ElementStrings \cup ExactElementStrings
                                         \cup OddRepeatElementStrings
                                         \cup BracketElementStrings }
    \cup { a \o <<"-">> \o b \o <<".">> : a \in ElementStrings, b \in ElementStrings }
    \cup { a \o <<"-">> \o b \o <<".">> :
             a \in ExactElementStrings, b \in ExactElementStrings }
    \cup { a \o <<"-">> \o b \o <<"-">> \o c \o <<".">> :
             a \in ChainElementStrings, b \in ChainElementStrings,
             c \in ChainElementStrings }

\* a sequence with a character that is no amino acid
ForeignSequences == { <<"B">> }

Sequences == UNION { [1..n -> SeqAlphabet] : n \in 0..MaxSeqLen } \cup ForeignSequences

(***************************************************************************)
(* The state: one Pattern object and the calls made on it.                 *)
(***************************************************************************)
VARIABLES
    pattern_string,   \* the argument of Pattern(...)
    pc,               \* "new": not yet constructed; "compiled"; "failed": __init__ raised
    elements,         \* Pattern.elements without the leading None
    error,            \* the exception __init__ raised, NoError otherwise
    sequence,         \* the sequence the caller searches
    call,             \* "idle": no sequence yet; "ready"; "find"; "find_all": in that loop
    anchor_idx,       \* the loop variable of find
    find_done,        \* find has returned on this sequence
    find_result,      \* what it returned
    index,            \* the loop variable of find_all
    results,          \* the list find_all builds and returns
    find_all_done,    \* find_all has returned on this sequence
    raised            \* the exception the last find_all raised, NoError otherwise

vars == <<pattern_string, pc, elements, error, sequence, call, anchor_idx,
          find_done, find_result, index, results, find_all_done, raised>>

\* Pattern.head: self.elements[-1]
head == Len(elements)

Init ==
    /\ pattern_string \in PatternStrings
    /\ pc = "new"
    /\ elements = <<>>
    /\ error = NoError
    /\ sequence = <<>>
    /\ call = "idle"
    /\ anchor_idx = 0
    /\ find_done = FALSE
    /\ find_result = -1
    /\ index = 0
    /\ results = <<>>
    /\ find_all_done = FALSE
    /\ raised = NoError

\* Pattern(pattern_string)
Compile ==
    /\ pc = "new"
    /\ LET c == Pattern_init(pattern_string)
       IN  /\ pc' = IF c.error = NoError THEN "compiled" ELSE "failed"
           /\ elements' = c.elements
           /\ error' = c.error
    /\ UNCHANGED <<pattern_string, sequence, call, anchor_idx, find_done, find_result,
                   index, results, find_all_done, raised>>

\* the caller takes up a sequence to search with the compiled pattern
NewSequence ==
    /\ pc = "compiled"
    /\ call \in {"idle", "ready"}
    /\ \E s \in Sequences : sequence' = s
    /\ call' = "ready"
    /\ anchor_idx' = 0
    /\ find_done' = FALSE
    /\ find_result' = -1
    /\ index' = 0
    /\ results' = <<>>
    /\ find_all_done' = FALSE
    /\ raised' = NoError
    /\ UNCHANGED <<pattern_string, pc, elements, error>>

\* Pattern.find is entered: anchor_idx = 0
FindStart ==
    /\ call = "ready"
    /\ ~find_done
    /\ call' = "find"
    /\ anchor_idx' = 0
    /\ UNCHANGED <<pattern_string, pc, elements, error, sequence, find_done, find_result,
                   index, results, find_all_done, raised>>

\* find with a while loop that stops one offset early
FindStep_stops_early ==
    /\ call = "find"
    /\ IF anchor_idx < Len(sequence) - 1
       THEN LET matches == match_including_following(elements, head, sequence, anchor_idx)
            IN  IF matches.hit
                THEN /\ find_result' = anchor_idx
                     /\ find_done' = TRUE
                     /\ call' = "ready"
                     /\ UNCHANGED anchor_idx
                ELSE /\ anchor_idx' = anchor_idx + 1
                     /\ UNCHANGED <<find_result, find_done, call>>
       ELSE /\ find_result' = -1
            /\ find_done' = TRUE
            /\ call' = "ready"
            /\ UNCHANGED anchor_idx
    /\ UNCHANGED <<pattern_string, pc, elements, error, sequence, index, results,
                   find_all_done, raised>>

\* find with a loop body that does not move on to the next offset
FindStep_never_advances ==
    /\ call = "find"
    /\ IF anchor_idx < Len(sequence)
       THEN LET matches == match_including_following(elements, head, sequence, anchor_idx)
            IN  IF matches.hit
                THEN /\ find_result' = anchor_idx
                     /\ find_done' = TRUE
                     /\ call' = "ready"
                     /\ UNCHANGED anchor_idx
                ELSE UNCHANGED <<anchor_idx, find_result, find_done, call>>
       ELSE /\ find_result' = -1
            /\ find_done' = TRUE
            /\ call' = "ready"
            /\ UNCHANGED anchor_idx
    /\ UNCHANGED <<pattern_string, pc, elements, error, sequence, index, results,
                   find_all_done, raised>>

\* find narrowing the head element to its least repeat count when it hits
FindStep_narrows_head ==
    /\ call = "find"
    /\ IF anchor_idx < Len(sequence)
       THEN LET matches == match_including_following(elements, head, sequence, anchor_idx)
            IN  IF matches.hit
                THEN /\ find_result' = anchor_idx
                     /\ find_done' = TRUE
                     /\ call' = "ready"
                     /\ elements' = [elements EXCEPT ![head].max_repeats =
                                                       elements[head].min_repeats]
                     /\ UNCHANGED anchor_idx
                ELSE /\ anchor_idx' = anchor_idx + 1
                     /\ UNCHANGED <<find_result, find_done, call, elements>>
       ELSE /\ find_result' = -1
            /\ find_done' = TRUE
            /\ call' = "ready"
            /\ UNCHANGED <<anchor_idx, elements>>
    /\ UNCHANGED <<pattern_string, pc, error, sequence, index, results,
                   find_all_done, raised>>

\* find with a while loop that also tries the offset len(sequence)
FindStep_scans_end ==
    /\ call = "find"
    /\ IF anchor_idx <= Len(sequence)
       THEN LET matches == match_including_following(elements, head, sequence, anchor_idx)
            IN  IF matches.hit
                THEN /\ find_result' = anchor_idx
                     /\ find_done' = TRUE
                     /\ call' = "ready"
                     /\ UNCHANGED anchor_idx
                ELSE /\ anchor_idx' = anchor_idx + 1
                     /\ UNCHANGED <<find_result, find_done, call>>
       ELSE /\ find_result' = -1
            /\ find_done' = TRUE
            /\ call' = "ready"
            /\ UNCHANGED anchor_idx
    /\ UNCHANGED <<pattern_string, pc, elements, error, sequence, index, results,
                   find_all_done, raised>>

\* one test of the while condition of find, and the loop body or the return
FindStep ==
    /\ call = "find"
    /\ IF anchor_idx < Len(sequence)
       THEN LET matches == match_including_following(elements, head, sequence, anchor_idx)
            IN  IF matches.hit
                THEN /\ find_result' = anchor_idx
                     /\ find_done' = TRUE
                     /\ call' = "ready"
                     /\ UNCHANGED anchor_idx
                ELSE /\ anchor_idx' = anchor_idx + 1
                     /\ UNCHANGED <<find_result, find_done, call>>
       ELSE /\ find_result' = -1
            /\ find_done' = TRUE
            /\ call' = "ready"
            /\ UNCHANGED anchor_idx
    /\ UNCHANGED <<pattern_string, pc, elements, error, sequence, index, results,
                   find_all_done, raised>>

\* Pattern.find_all is entered: results = [], index = 0
FindAllStart ==
    /\ call = "ready"
    /\ ~find_all_done
    /\ raised = NoError
    /\ call' = "find_all"
    /\ index' = 0
    /\ results' = <<>>
    /\ UNCHANGED <<pattern_string, pc, elements, error, sequence, anchor_idx, find_done,
                   find_result, find_all_done, raised>>

\* find_all putting what an offset yields in front of the earlier results
FindAllStep_prepends ==
    /\ call = "find_all"
    /\ IF index < Len(sequence)
       THEN LET found == match_all_possible(elements, head, sequence, index)
            IN  IF overlong_slice(found, sequence)
                THEN /\ raised' = Raise("AssertionError", "overlong slice")
                     /\ call' = "ready"
                     /\ UNCHANGED <<index, results, find_all_done>>
                ELSE /\ results' = found \o results
                     /\ index' = index + 1
                     /\ UNCHANGED <<call, find_all_done, raised>>
       ELSE /\ find_all_done' = TRUE
            /\ call' = "ready"
            /\ UNCHANGED <<index, results, raised>>
    /\ UNCHANGED <<pattern_string, pc, elements, error, sequence, anchor_idx, find_done,
                   find_result>>

\* one test of the while condition of find_all, and the loop body or the return
FindAllStep ==
    /\ call = "find_all"
    /\ IF index < Len(sequence)
       THEN LET found == match_all_possible(elements, head, sequence, index)
            IN  IF overlong_slice(found, sequence)
                THEN /\ raised' = Raise("AssertionError", "overlong slice")
                     /\ call' = "ready"
                     /\ UNCHANGED <<index, results, find_all_done>>
                ELSE /\ results' = results \o found
                     /\ index' = index + 1
                     /\ UNCHANGED <<call, find_all_done, raised>>
       ELSE /\ find_all_done' = TRUE
            /\ call' = "ready"
            /\ UNCHANGED <<index, results, raised>>
    /\ UNCHANGED <<pattern_string, pc, elements, error, sequence, anchor_idx, find_done,
                   find_result>>

Next ==
    \/ Compile
    \/ NewSequence
    \/ FindStart
    \/ FindStep
    \/ FindAllStart
    \/ FindAllStep

Spec == Init /\ [][Next]_vars

\* the patterns the searches are run to their end on: those of one element,
\* those of two elements with exact repeat counts and those of three elements
TerminationPatternStrings ==
    { a \o <<".">> : a \in ElementStrings \cup ExactElementStrings
                                         \cup OddRepeatElementStrings }
    \cup { a \o <<"-">> \o b \o <<".">> :
             a \in ExactElementStrings, b \in ExactElementStrings }
    \cup { a \o <<"-">> \o b \o <<"-">> \o c \o <<".">> :
             a \in ChainElementStrings, b \in ChainElementStrings,
             c \in ChainElementStrings }

FairInit ==
    /\ pattern_string \in TerminationPatternStrings
    /\ pc = "new"
    /\ elements = <<>>
    /\ error = NoError
    /\ sequence = <<>>
    /\ call = "idle"
    /\ anchor_idx = 0
    /\ find_done = FALSE
    /\ find_result = -1
    /\ index = 0
    /\ results = <<>>
    /\ find_all_done = FALSE
    /\ raised = NoError

\* a call of find or find_all that has been entered keeps running: the code
\* is sequential and its loops wait for nothing
FairSpec == FairInit /\ [][Next]_vars /\ WF_vars(FindStep) /\ WF_vars(FindAllStep)

(***************************************************************************)
(* Vocabulary of the properties.                                           *)
(***************************************************************************)
\* the elements of the pattern string, in the order they are written
Parts(ps) == split(strip(ps, "."), "-")

\* the element string compiles when it stands alone
WellFormedPart(raw) == compile_part(raw, <<>>).error = NoError

\* the least member of a non-empty set of integers
Min(S) == CHOOSE x \in S : \A y \in S : x <= y

\* __init__ has returned or raised
Constructed_ == pc \in {"compiled", "failed"}

\* __init__ has just returned or raised: no call has been made on the object
JustConstructed == Constructed_ /\ call = "idle"

\* the caller has taken up a sequence and has not searched it yet
SearchBegins ==
    /\ pc = "compiled"
    /\ call = "ready"
    /\ ~find_done
    /\ ~find_all_done
    /\ raised = NoError

\* the head element and the last element of a compiled chain
HeadElement == elements[head]

LastElement == elements[1]

\* the offsets of the scan at which the chain matches
HitOffsets ==
    { i \in 0..(Len(sequence) - 1) :
        match_including_following(elements, head, sequence, i).hit }

\* the pattern is `X.` for one amino acid X
SingleLiteral ==
    /\ Len(pattern_string) = 2
    /\ pattern_string[1] \in AMINOS
    /\ pattern_string[2] = "."

LiteralOffsets ==
    { i \in 0..(Len(sequence) - 1) : CharAt(sequence, i) = pattern_string[1] }

(***************************************************************************)
(* C1: when the head element carries the start anchor, find returns 0 or   *)
(* -1 and never another offset.  The code scans every offset and lets      *)
(* offset_ok accept the offsets below max_repeats, so this fails.          *)
(***************************************************************************)
C1_AnchoredFindReturnsZero ==
    (pc = "compiled" /\ find_done /\ HeadElement.nterm) => find_result \in {0, -1}

(***************************************************************************)
(* C2: when the head element carries the start anchor, every location      *)
(* find_all returns starts at 0.  Fails for the same reason as C1.         *)
(***************************************************************************)
C2_AnchoredFindAllStartsAtZero ==
    (pc = "compiled" /\ find_all_done /\ HeadElement.nterm)
        => \A i \in 1..Len(results) : results[i].start = 0

(***************************************************************************)
(* C3: when the last element carries the end anchor, every location        *)
(* find_all returns ends at len(sequence).  The code reports the shorter   *)
(* repeat counts of the anchored element too, so this fails.               *)
(***************************************************************************)
C3_AnchoredFindAllEndsAtEnd ==
    (pc = "compiled" /\ find_all_done /\ LastElement.cterm)
        => \A i \in 1..Len(results) : results[i].end = Len(sequence)

(***************************************************************************)
(* C4: find returns the least offset of the sequence at which              *)
(* match_including_following of the head hits, -1 when there is none; for  *)
(* a pattern `X.` that is the first index of X in the sequence.            *)
(***************************************************************************)
C4_FindReturnsFirstHit ==
    find_done =>
        /\ find_result = IF HitOffsets = {} THEN -1 ELSE Min(HitOffsets)
        /\ SingleLiteral =>
              find_result = IF LiteralOffsets = {} THEN -1 ELSE Min(LiteralOffsets)

\* find has skipped an offset without a hit and returned a later one, for `X.`
C4_Witness ==
    find_done /\ SingleLiteral /\ find_result > 0

(***************************************************************************)
(* C5: every location find_all collects has 0 <= start <= end <=           *)
(* len(sequence), and the "overlong slice" assertion never fails.          *)
(***************************************************************************)
C5_LocationsInsideSequence ==
    /\ raised = NoError
    /\ \A i \in 1..Len(results) :
          /\ 0 <= results[i].start
          /\ results[i].start <= results[i].end
          /\ results[i].end <= Len(sequence)

\* find_all has returned a location that ends at the end of the sequence for
\* a chain whose last element could have matched one position past the end
C5_Witness ==
    /\ find_all_done
    /\ LastElement.optional_c_terminus
    /\ LastElement.max_repeats >= 2
    /\ \E i \in 1..Len(results) : results[i].end = Len(sequence)

(***************************************************************************)
(* C6: find returns -1 exactly when find_all returns an empty list, and    *)
(* otherwise the start of find_all's first location.  The code's find      *)
(* counts a match of `[X>]` at the end of the sequence that find_all       *)
(* drops, so this fails.                                                   *)
(***************************************************************************)
C6_FindAgreesWithFindAll ==
    (find_done /\ find_all_done) =>
        /\ (find_result = -1) <=> (results = <<>>)
        /\ results # <<>> => find_result = results[1].start

(***************************************************************************)
(* C7: for a chain that ends in a class with the end-of-sequence           *)
(* alternative, find_all reports every run of the preceding element that   *)
(* ends at len(sequence) as a location ending there, and no location       *)
(* counts more than the characters of the sequence.  It is stated for the  *)
(* chains of two elements.  The code drops the location when the class     *)
(* has no smaller repeat count to fall back on, so this fails.             *)
(***************************************************************************)
C7_EndAlternativeIsReported ==
    ( /\ find_all_done
      /\ Len(elements) = 2
      /\ LastElement.kind = "MultipleAmino"
      /\ LastElement.optional_c_terminus )
    => /\ \A i \in 0..(Len(sequence) - 1) :
            (\E r \in HeadElement.min_repeats..HeadElement.max_repeats :
                /\ i + r = Len(sequence)
                /\ repeat_matches(HeadElement, sequence, i, r))
            => \E k \in 1..Len(results) :
                  results[k] = MatchLocation(i, Len(sequence))
       /\ \A k \in 1..Len(results) : results[k].end <= Len(sequence)

(***************************************************************************)
(* C8: a pattern in which a class carries the optional end marker inside   *)
(* the brackets and the end anchor after them does not compile.  The code  *)
(* has no such check, so this fails.                                       *)
(***************************************************************************)
\* the element string is a class with ">" inside the brackets and after them
OptionalAndFixedCterm(raw) ==
    LET t == parse_terminus(raw)
    IN  /\ t.cterm
        /\ startswith(t.part, "[")
        /\ \E i \in 1..Len(t.part) : t.part[i] = ">"

C8_OptionalAndFixedCtermRejected ==
    ( /\ Constructed_
      /\ \E i \in 1..Len(Parts(pattern_string)) :
            OptionalAndFixedCterm(Parts(pattern_string)[i]) )
    => pc = "failed"

(***************************************************************************)
(* C9: a pattern with the start anchor on an element other than the first  *)
(* fails with ValueError 'Invalid pattern', and only the head of a         *)
(* compiled chain has nterm set.                                           *)
(***************************************************************************)
NtermOnLaterPart(ps) ==
    \E i \in 2..Len(Parts(ps)) : parse_terminus(Parts(ps)[i]).nterm

CtermOnEarlierPart(ps) ==
    \E i \in 1..(Len(Parts(ps)) - 1) : parse_terminus(Parts(ps)[i]).cterm

AllPartsWellFormed(ps) ==
    \A i \in 1..Len(Parts(ps)) : WellFormedPart(Parts(ps)[i])

\* C9 as written: the failure is always ValueError 'Invalid pattern'
C9_Original ==
    (Constructed_ /\ NtermOnLaterPart(pattern_string))
        => (pc = "failed" /\ error = ValueError("Invalid pattern"))

\* C9 as amended: such a pattern never compiles; the exception is ValueError
\* 'Invalid pattern' when each element is well formed by itself; and only the
\* head of a compiled chain has nterm set
C9_NtermOnlyOnHead ==
    /\ (JustConstructed /\ NtermOnLaterPart(pattern_string)) => pc = "failed"
    /\ (JustConstructed /\ NtermOnLaterPart(pattern_string)
          /\ AllPartsWellFormed(pattern_string))
        => error = ValueError("Invalid pattern")
    /\ pc = "compiled" => \A i \in 1..(Len(elements) - 1) : ~elements[i].nterm

\* a pattern of well-formed elements was rejected for its misplaced start anchor
C9_Witness ==
    /\ pc = "failed"
    /\ NtermOnLaterPart(pattern_string)
    /\ ~CtermOnEarlierPart(pattern_string)
    /\ AllPartsWellFormed(pattern_string)
    /\ error = ValueError("Invalid pattern")

(***************************************************************************)
(* C10: a pattern with the end anchor on an element that has a successor   *)
(* fails with ValueError 'Invalid pattern', and an element of a compiled   *)
(* chain with cterm set has no successor.                                  *)
(***************************************************************************)
\* C10 as written: the failure is always ValueError 'Invalid pattern'
C10_Original ==
    (Constructed_ /\ CtermOnEarlierPart(pattern_string))
        => (pc = "failed" /\ error = ValueError("Invalid pattern"))

\* C10 as amended: such a pattern never compiles; the exception is ValueError
\* 'Invalid pattern' when each element is well formed by itself; and an
\* element of a compiled chain with cterm set has no successor
C10_CtermOnlyOnLast ==
    /\ (JustConstructed /\ CtermOnEarlierPart(pattern_string)) => pc = "failed"
    /\ (JustConstructed /\ CtermOnEarlierPart(pattern_string)
          /\ AllPartsWellFormed(pattern_string))
        => error = ValueError("Invalid pattern")
    /\ pc = "compiled" =>
          \A i \in 1..Len(elements) : elements[i].cterm => elements[i].next_element = None

\* a pattern of well-formed elements was rejected for its misplaced end anchor
C10_Witness ==
    /\ pc = "failed"
    /\ CtermOnEarlierPart(pattern_string)
    /\ ~NtermOnLaterPart(pattern_string)
    /\ AllPartsWellFormed(pattern_string)
    /\ error = ValueError("Invalid pattern")

(***************************************************************************)
(* C11: on the empty sequence find returns -1 and find_all returns the     *)
(* empty list, whatever the compiled pattern, also when every element has  *)
(* min_repeats = 0.                                                        *)
(***************************************************************************)
C11_EmptySequenceFindsNothing ==
    /\ (pc = "compiled" /\ find_done /\ sequence = <<>>) => find_result = -1
    /\ (pc = "compiled" /\ find_all_done /\ sequence = <<>>) => results = <<>>

\* both searches have returned on the empty sequence for a pattern whose
\* elements all admit zero repeats
C11_Witness ==
    /\ pc = "compiled"
    /\ sequence = <<>>
    /\ call = "ready"
    /\ find_done /\ find_result = -1
    /\ find_all_done /\ results = <<>>
    /\ \A i \in 1..Len(elements) : elements[i].min_repeats = 0

(***************************************************************************)
(* C12: the list find_all returns is in scan order.  It is, offset after   *)
(* offset, the list match_all_possible gives at that offset, with nothing  *)
(* dropped and nothing reordered; so the starts never decrease along it.   *)
(***************************************************************************)
\* what match_all_possible gives at the offsets 0 .. n-1, one list after another
RECURSIVE ScanOrder(_)
ScanOrder(n) ==
    IF n = 0 THEN <<>>
    ELSE ScanOrder(n - 1) \o match_all_possible(elements, head, sequence, n - 1)

\* C12: find_all's list is ScanOrder of the offsets scanned, with ascending starts
C12_FindAllInScanOrder ==
    /\ (pc = "compiled" /\ call = "find_all") => results = ScanOrder(index)
    /\ (pc = "compiled" /\ find_all_done) =>
          /\ results = ScanOrder(Len(sequence))
          /\ \A i \in 1..Len(results) : \A j \in i..Len(results) :
                 results[i].start <= results[j].start

\* find_all has returned two locations with one start, in the order they were
\* found, and a later location that overlaps them
C12_Witness ==
    /\ pc = "compiled"
    /\ find_all_done
    /\ \E i \in 1..Len(results) : \E j \in (i + 1)..Len(results) :
          \E k \in (j + 1)..Len(results) :
             /\ results[i].start = results[j].start
             /\ results[i].end > results[j].end
             /\ results[k].start > results[j].start
             /\ results[k].start < results[i].end

(***************************************************************************)
(* C13: for a pattern whose elements all have min_repeats = max_repeats    *)
(* and that has no anchor and no end-of-sequence alternative, find_all     *)
(* returns one location for each offset at which the whole chain occurs,   *)
(* of length the sum of the repeat counts, and nothing else.               *)
(***************************************************************************)
\* every element repeats a fixed number of times, none is anchored or may
\* stand for the end of the sequence
FixedPattern ==
    \A k \in 1..Len(elements) :
        /\ elements[k].min_repeats = elements[k].max_repeats
        /\ ~elements[k].nterm
        /\ ~elements[k].cterm
        /\ ~elements[k].optional_c_terminus

\* the character c is one the element stands for
CharFits(e, c) ==
    CASE e.kind = "SimpleAmino"   -> c = e.amino
      [] e.kind = "AnyAmino"      -> TRUE
      [] e.kind = "MultipleAmino" -> c \in e.options
      [] e.kind = "NegatedAmino"  -> c \notin e.options

\* the repeat counts of elements[k], elements[k+1], ... added up; the head is
\* the last of elements, so these are the element k and those written before it
RECURSIVE RepeatsFrom(_)
RepeatsFrom(k) ==
    IF k > Len(elements) THEN 0 ELSE elements[k].max_repeats + RepeatsFrom(k + 1)

\* the whole chain occurs at offset i: it lies inside the sequence and each
\* element's characters are ones it stands for
Occurs(i) ==
    /\ i + RepeatsFrom(1) <= Len(sequence)
    /\ \A k \in 1..Len(elements) : \A p \in 0..(elements[k].max_repeats - 1) :
          CharFits(elements[k], CharAt(sequence, i + RepeatsFrom(k + 1) + p))

\* C13: a fixed pattern gives one location of the chain's length per occurrence
C13_FixedPatternOneSpanPerOccurrence ==
    (pc = "compiled" /\ FixedPattern) =>
        /\ raised = NoError
        /\ find_all_done =>
              /\ \A i \in 0..(Len(sequence) - 1) :
                    Cardinality({ k \in 1..Len(results) : results[k].start = i })
                        = IF Occurs(i) THEN 1 ELSE 0
              /\ \A k \in 1..Len(results) :
                    /\ results[k].start \in 0..(Len(sequence) - 1)
                    /\ results[k].end = results[k].start + RepeatsFrom(1)
              /\ \A k \in 1..(Len(results) - 1) : results[k].start < results[k + 1].start

\* find_all has returned for a fixed pattern of two elements, one of them
\* repeated twice, that occurs in the sequence but not where its head alone fits
C13_Witness ==
    /\ pc = "compiled"
    /\ FixedPattern
    /\ find_all_done
    /\ Len(elements) = 2
    /\ \E k \in 1..2 : elements[k].max_repeats = 2
    /\ Len(results) >= 1
    /\ \E i \in 0..(Len(sequence) - 1) :
          /\ CharFits(HeadElement, CharAt(sequence, i))
          /\ ~Occurs(i)

(***************************************************************************)
(* C14: a compiled Pattern is read-only.  Whatever calls have been made on *)
(* it, its chain is the chain compiling its string gives, and what find    *)
(* and find_all return on a sequence is what they return for a Pattern     *)
(* freshly compiled from the same string.                                  *)
(***************************************************************************)
\* the chain of a Pattern freshly compiled from the string of this one
FreshElements == Pattern_init(pattern_string).elements

\* what find returns for the chain on the sequence
FindOf(chain, seq) ==
    LET hits == { i \in 0..(Len(seq) - 1) :
                    match_including_following(chain, Len(chain), seq, i).hit }
    IN  IF hits = {} THEN -1 ELSE Min(hits)

\* what find_all collects for the chain on the sequence at the offsets 0 .. n-1
RECURSIVE FindAllOf(_, _, _)
FindAllOf(chain, seq, n) ==
    IF n = 0 THEN <<>>
    ELSE FindAllOf(chain, seq, n - 1) \o match_all_possible(chain, Len(chain), seq, n - 1)

\* C14: compiling gives the fresh chain; no step on a compiled Pattern changes
\* its string or its chain; and a search that returns, returns what the fresh
\* chain gives on the sequence
C14_PatternIsReadOnly ==
    [][ /\ (pc = "new" /\ pc' = "compiled") => elements' = FreshElements
        /\ pc = "compiled" =>
              /\ pc' = "compiled"
              /\ pattern_string' = pattern_string
              /\ elements' = elements
              /\ (~find_done /\ find_done') =>
                    find_result' = FindOf(FreshElements, sequence)
              /\ (~find_all_done /\ find_all_done') =>
                    results' = FindAllOf(FreshElements, sequence, Len(sequence)) ]_vars

\* both searches have returned, with hits, on a sequence the pattern was given
\* while its chain allows more than one repeat count for the head
C14_Witness ==
    /\ pc = "compiled"
    /\ call = "ready"
    /\ find_done /\ find_result >= 0
    /\ find_all_done /\ Len(results) >= 2
    /\ HeadElement.min_repeats < HeadElement.max_repeats
    /\ elements = FreshElements

(***************************************************************************)
(* C15: every failure to compile a string that ends in "." is a            *)
(* ValueError; no other kind of exception escapes Pattern(...), also not   *)
(* for `.`, `A-.` or `<.`.  An empty element reaches part[0] and raises    *)
(* IndexError, so this fails.                                              *)
(***************************************************************************)
C15_FailureIsValueError ==
    (pc = "failed" /\ endswith(pattern_string, ".")) => error.kind = "ValueError"

(***************************************************************************)
(* C16: an element whose leading character is not an amino acid, "x", "["  *)
(* or "{", or a literal followed by something that is not a parenthesised  *)
(* repeat suffix, or a class with a character outside the alphabet in its  *)
(* body, fails to compile with ValueError, and no Pattern is produced.     *)
(***************************************************************************)
\* the element without its anchor markers
Body(raw) == parse_terminus(raw).part

\* the leading character starts no kind of element
UnknownLeader(raw) ==
    /\ Len(Body(raw)) > 0
    /\ Body(raw)[1] \notin AMINOS \cup {"x", "[", "{"}

\* a literal with something other than "(" ... ")" behind it
LiteralWithTrail(raw) ==
    /\ Len(Body(raw)) > 1
    /\ Body(raw)[1] \in AMINOS
    /\ ~(Body(raw)[2] = "(" /\ Body(raw)[Len(Body(raw))] = ")")

\* a class with a character in its body that is neither an amino acid nor
\* the ">" of the end-of-sequence alternative
ForeignInClass(raw) ==
    /\ Len(Body(raw)) > 1
    /\ Body(raw)[1] \in {"[", "{"}
    /\ LET closer == IF Body(raw)[1] = "[" THEN "]" ELSE "}"
       IN  \E i \in 2..Len(Body(raw)) :
              /\ Body(raw)[i] \notin AMINOS \cup {">", closer}
              /\ \A j \in 2..(i - 1) : Body(raw)[j] # closer

BadElement(raw) == UnknownLeader(raw) \/ LiteralWithTrail(raw) \/ ForeignInClass(raw)

HasBadElement(ps) == \E i \in 1..Len(Parts(ps)) : BadElement(Parts(ps)[i])

NoEmptyElement(ps) == \A i \in 1..Len(Parts(ps)) : Body(Parts(ps)[i]) # <<>>

\* C16: a pattern with such an element never compiles; the element fails with
\* ValueError, and so does the pattern unless an empty element of it fails first
C16_BadElementIsValueError ==
    (JustConstructed /\ HasBadElement(pattern_string)) =>
        /\ pc = "failed"
        /\ NoEmptyElement(pattern_string) => error.kind = "ValueError"
        /\ \A i \in 1..Len(Parts(pattern_string)) :
              BadElement(Parts(pattern_string)[i]) =>
                 compile_part(Parts(pattern_string)[i], <<>>).error.kind = "ValueError"

\* a pattern of two elements was rejected for the foreign character in a class
C16_Witness ==
    /\ pc = "failed"
    /\ Len(Parts(pattern_string)) = 2
    /\ \E i \in 1..2 : ForeignInClass(Parts(pattern_string)[i])
    /\ ~(\E i \in 1..2 : UnknownLeader(Parts(pattern_string)[i])
                          \/ LiteralWithTrail(Parts(pattern_string)[i]))
    /\ error = ValueError("Invalid amino acid")

(***************************************************************************)
(* C17: a Match that is a hit carries a distance of at least 0, and        *)
(* reading the distance of a Match that is no hit raises ValueError        *)
(* instead of returning the value stored in it.                            *)
(***************************************************************************)
\* the offsets a search of the sequence passes to an element: those of the
\* scan, and the one past the end that a successor is tried at
OffsetsTried == 0..(Len(sequence) + 1)

\* the Match objects the searches of the sequence construct: what self.match
\* and match_including_following return for each element at each offset
MatchesMade ==
    { match(elements[k], sequence, i) : k \in 1..Len(elements), i \in OffsetsTried }
    \cup { match_including_following(elements, k, sequence, i) :
              k \in 1..Len(elements), i \in OffsetsTried }

\* C17: of the Match objects a search of the sequence can construct, hits have
\* a distance >= 0 that can be read; reading that of a no-match raises
C17_DistanceOnlyOfHits ==
    SearchBegins =>
        \A m \in MatchesMade :
            /\ m.hit => /\ m.distance >= 0
                        /\ Match_distance(m) = [error |-> NoError, value |-> m.distance]
            /\ ~m.hit => Match_distance(m).error
                            = ValueError("Cannot access distance without a match")

\* find has returned an offset; among the Match objects of the search are a
\* hit and a no-match that stores -1
C17_Witness ==
    /\ pc = "compiled"
    /\ find_done /\ find_result >= 0
    /\ \E m \in MatchesMade : m.hit /\ m.distance >= 1
    /\ \E m \in MatchesMade : ~m.hit /\ m.distance = -1

(***************************************************************************)
(* C18: when match_including_following hits at an offset between 0 and     *)
(* len(sequence), its distance is the number of positions consumed, so     *)
(* offset + distance <= len(sequence), also for a chain with a class that  *)
(* may stand for the end of the sequence.  The code counts one position    *)
(* for each repeat of such a class that matched the end, so this fails.    *)
(***************************************************************************)
C18_DistanceStaysInsideSequence ==
    (pc = "compiled" /\ call # "idle") =>
        \A offset \in 0..Len(sequence) :
            LET m == match_including_following(elements, head, sequence, offset)
            IN  m.hit => offset + m.distance <= Len(sequence)

(***************************************************************************)
(* C19: backtracking is complete.  match_including_following hits at an    *)
(* offset exactly when some choice of repeat counts, each within its       *)
(* element's bounds, makes every element match at each of its consecutive  *)
(* positions from the offset on; a successor that fails after a larger     *)
(* count does not keep a smaller count from being tried.                   *)
(***************************************************************************)
\* the choices of one repeat count for each element of the chain
RepeatChoices ==
    { f \in [1..Len(elements) ->
                UNION { elements[k].min_repeats..elements[k].max_repeats :
                          k \in 1..Len(elements) }] :
        \A k \in 1..Len(elements) :
            elements[k].min_repeats <= f[k] /\ f[k] <= elements[k].max_repeats }

\* the positions the choice gives to the elements written before elements[k],
\* which are the elements after it in the list
RECURSIVE Before(_, _)
Before(f, k) == IF k >= Len(elements) THEN 0 ELSE f[k + 1] + Before(f, k + 1)

\* every element matches at each of the positions the choice gives it
ValidChoice(f, offset) ==
    \A k \in 1..Len(elements) : \A p \in 0..(f[k] - 1) :
        match(elements[k], sequence, offset + Before(f, k) + p).hit

\* C19: for the sequence taken up, the chain hits at an offset exactly when a
\* valid choice of repeats exists
C19_BacktrackingIsComplete ==
    SearchBegins =>
        \A offset \in 0..Len(sequence) :
            match_including_following(elements, head, sequence, offset).hit
                <=> \E f \in RepeatChoices : ValidChoice(f, offset)

\* find has returned an offset at which the head matches its largest repeat
\* count, the successor fails behind it, and a smaller count leads to the hit
C19_Witness ==
    /\ pc = "compiled"
    /\ find_done /\ find_result >= 0
    /\ HeadElement.next_element # None
    /\ HeadElement.min_repeats < HeadElement.max_repeats
    /\ repeat_matches(HeadElement, sequence, find_result, HeadElement.max_repeats)
    /\ ~match_including_following(elements, HeadElement.next_element, sequence,
                                  find_result + HeadElement.max_repeats).hit
    /\ \E f \in RepeatChoices :
          ValidChoice(f, find_result) /\ f[head] < HeadElement.max_repeats

(***************************************************************************)
(* C20: the tie-break is greedy.  When match_including_following hits, its *)
(* distance is r + d: r the largest repeat count within the bounds for     *)
(* which the element matches r consecutive positions and the successor     *)
(* chain hits at offset + r, d the distance of that successor hit, 0       *)
(* without a successor.  For the head this is the extent of the            *)
(* lexicographically greatest valid choice of repeat counts.               *)
(***************************************************************************)
\* the greatest member of a non-empty set of integers
Max(S) == CHOOSE x \in S : \A y \in S : x >= y

\* the repeat counts of elements[k] that match at the offset and are followed
\* by a hit of the successor chain
CountsThatLead(k, offset) ==
    { r \in elements[k].min_repeats..elements[k].max_repeats :
        /\ \A p \in 0..(r - 1) : match(elements[k], sequence, offset + p).hit
        /\ elements[k].next_element # None =>
              match_including_following(elements, elements[k].next_element,
                                        sequence, offset + r).hit }

\* the distance of the successor's hit behind r positions, 0 without a successor
SuccessorDistance(k, offset, r) ==
    IF elements[k].next_element = None THEN 0
    ELSE match_including_following(elements, elements[k].next_element,
                                   sequence, offset + r).distance

\* f comes after g when the choices are compared from the head on
ComesAfter(f, g) ==
    \E k \in 1..Len(elements) :
        /\ f[k] > g[k]
        /\ \A j \in (k + 1)..Len(elements) : f[j] = g[j]

\* the valid choices at the offset that no other valid choice comes after
GreatestValidChoices(offset) ==
    LET valid == { f \in RepeatChoices : ValidChoice(f, offset) }
    IN  { f \in valid : \A g \in valid : ~ComesAfter(g, f) }

\* C20: a hit's distance is the largest leading repeat count plus the
\* successor's distance, and for the head the extent of the greatest valid choice
C20_GreedyTieBreak ==
    SearchBegins =>
        /\ \A k \in 1..Len(elements) : \A offset \in OffsetsTried :
              LET m == match_including_following(elements, k, sequence, offset)
              IN  m.hit =>
                     /\ CountsThatLead(k, offset) # {}
                     /\ m.distance = Max(CountsThatLead(k, offset))
                           + SuccessorDistance(k, offset, Max(CountsThatLead(k, offset)))
        /\ \A offset \in 0..Len(sequence) :
              LET m == match_including_following(elements, head, sequence, offset)
              IN  m.hit => \A f \in GreatestValidChoices(offset) : m.distance = Before(f, 0)

\* find has returned an offset at which two valid choices of repeat counts
\* for a chain of several elements have different extents
C20_Witness ==
    /\ pc = "compiled"
    /\ find_done /\ find_result >= 0
    /\ Len(elements) >= 2
    /\ GreatestValidChoices(find_result) # {}
    /\ \E f \in RepeatChoices :
          /\ ValidChoice(f, find_result)
          /\ \A g \in GreatestValidChoices(find_result) : Before(f, 0) < Before(g, 0)

(***************************************************************************)
(* C21: the list match_all_possible returns for one offset has one         *)
(* location for each total length consumed: no two of its locations have   *)
(* the same end, also for chains with several ranged elements in a row.    *)
(* The code adds a location for every choice of repeat counts that         *)
(* matches, and two choices can end at the same position, so this fails.   *)
(***************************************************************************)
C21_OneLocationPerEnd ==
    SearchBegins =>
        \A offset \in 0..(Len(sequence) - 1) :
            LET found == match_all_possible(elements, head, sequence, offset)
            IN  \A i \in 1..Len(found) : \A j \in 1..Len(found) :
                    found[i].end = found[j].end => i = j

(***************************************************************************)
(* C22: the enumeration is sound and complete.  At every offset of the     *)
(* scan the ends of the locations match_all_possible returns are exactly   *)
(* the positions offset + r_1 + ... + r_k inside the sequence that a valid *)
(* choice of repeat counts reaches, and every location starts at offset.   *)
(***************************************************************************)
\* the ends the valid choices of repeat counts reach inside the sequence
EndsReached(offset) ==
    { offset + Before(f, 0) : f \in { g \in RepeatChoices :
                                        /\ ValidChoice(g, offset)
                                        /\ offset + Before(g, 0) <= Len(sequence) } }

\* the ends of the locations match_all_possible returns at the offset
EndsFound(offset) ==
    LET found == match_all_possible(elements, head, sequence, offset)
    IN  { found[i].end : i \in 1..Len(found) }

C23_RepeatBoundsOrdered ==
    pc = "compiled" =>
        \A k \in 1..Len(elements) :
            0 <= elements[k].min_repeats
                /\ elements[k].min_repeats <= elements[k].max_repeats

(***************************************************************************)
(* C24: parse_repeats returns (1, 1) without a repeat suffix, (n, n) for   *)
(* the suffix (n) and (n, m) for (n,m), and raises ValueError for every    *)
(* other suffix.                                                           *)
(***************************************************************************)
\* the pattern is one literal or wildcard element; what follows the first
\* character of its body is handed to parse_repeats as the suffix
OneElementWithSuffix ==
    /\ Len(Parts(pattern_string)) = 1
    /\ Len(Body(Parts(pattern_string)[1])) > 0
    /\ Body(Parts(pattern_string)[1])[1] \in AMINOS \cup {"x"}

TheBody == Body(Parts(pattern_string)[1])

Suffix == SubSeq(TheBody, 2, Len(TheBody))

\* a non-empty string of digits
IsNumber(s) == Len(s) > 0 /\ \A i \in 1..Len(s) : s[i] \in Digits

\* what stands between the parentheses of a suffix that has them
Inner(s) == SubSeq(s, 2, Len(s) - 1)

Parenthesised(s) == Len(s) >= 2 /\ s[1] = "(" /\ s[Len(s)] = ")"

\* the places of the comma in `n,m`
CommaPlaces(s) ==
    { c \in 1..Len(s) :
        /\ s[c] = ","
        /\ IsNumber(SubSeq(s, 1, c - 1))
        /\ IsNumber(SubSeq(s, c + 1, Len(s))) }

\* what C24 says parse_repeats gives for the suffix
RepeatsOf(s) ==
    IF s = <<>>
    THEN [raises |-> FALSE, min_repeats |-> 1, max_repeats |-> 1]
    ELSE IF Parenthesised(s) /\ IsNumber(Inner(s))
    THEN [raises |-> FALSE, min_repeats |-> int(Inner(s)), max_repeats |-> int(Inner(s))]
    ELSE IF Parenthesised(s) /\ CommaPlaces(Inner(s)) # {}
    THEN LET c == CHOOSE c \in CommaPlaces(Inner(s)) : TRUE
         IN  [raises |-> FALSE,
              min_repeats |-> int(SubSeq(Inner(s), 1, c - 1)),
              max_repeats |-> int(SubSeq(Inner(s), c + 1, Len(Inner(s))))]
    ELSE [raises |-> TRUE, min_repeats |-> 0, max_repeats |-> 0]

\* C24: parse_repeats gives what RepeatsOf says, and so does the compiled element
C24_ParseRepeats ==
    (JustConstructed /\ OneElementWithSuffix) =>
        LET said == RepeatsOf(Suffix)
            got  == parse_repeats(TheBody, 1)
        IN  IF said.raises
            THEN /\ got.error.kind = "ValueError"
                 /\ pc = "failed"
                 /\ error = got.error
            ELSE /\ got.error = NoError
                 /\ got.min_repeats = said.min_repeats
                 /\ got.max_repeats = said.max_repeats
                 /\ pc = "compiled"
                 /\ elements[1].min_repeats = said.min_repeats
                 /\ elements[1].max_repeats = said.max_repeats

\* a suffix of three numbers between parentheses was rejected
C24_Witness ==
    /\ pc = "failed"
    /\ OneElementWithSuffix
    /\ Parenthesised(Suffix)
    /\ Cardinality({ i \in 1..Len(Suffix) : Suffix[i] = "," }) = 2
    /\ \A i \in 2..(Len(Suffix) - 1) : Suffix[i] \in Digits \cup {","}
    /\ error = ValueError("Invalid repeat")

(***************************************************************************)
(* C25: a class or negated class with an empty body fails with ValueError  *)
(* 'No valid options provided', one without its closing bracket or closed  *)
(* by the other kind of bracket with 'Brackets do not match'; so a         *)
(* compiled class without the end-of-sequence alternative has options.     *)
(***************************************************************************)
\* the pattern is one element that opens a class or a negated class
OneClassElement ==
    /\ Len(Parts(pattern_string)) = 1
    /\ Len(Body(Parts(pattern_string)[1])) > 0
    /\ Body(Parts(pattern_string)[1])[1] \in {"[", "{"}

\* the bracket that closes the class b opens, and the one of the other kind
Closer(b) == IF b[1] = "[" THEN "]" ELSE "}"

OtherCloser(b) == IF b[1] = "[" THEN "}" ELSE "]"

\* the body is closed at once, and nothing or a repeat suffix follows
EmptyClass(b) ==
    /\ Len(b) >= 2
    /\ b[2] = Closer(b)
    /\ ~RepeatsOf(SubSeq(b, 3, Len(b))).raises

\* amino acids only follow the opening bracket
Unterminated(b) == \A i \in 2..Len(b) : b[i] \in AMINOS

\* amino acids follow the opening bracket up to a bracket of the other kind
WrongCloser(b) ==
    \E i \in 2..Len(b) :
        /\ b[i] = OtherCloser(b)
        /\ \A j \in 2..(i - 1) : b[j] \in AMINOS

\* C25 as written: the wrong closing bracket gives 'Brackets do not match'
C25_Original ==
    (JustConstructed /\ OneClassElement) =>
        /\ EmptyClass(TheBody) => error = ValueError("No valid options provided")
        /\ (Unterminated(TheBody) \/ WrongCloser(TheBody))
              => error = ValueError("Brackets do not match")

\* C25 as amended: the wrong closing bracket gives 'Invalid amino acid' when
\* the pattern is compiled, and 'Brackets do not match' when the element is
\* handed to the constructor of the other kind of class
C25_ClassBodyErrors ==
    /\ (JustConstructed /\ OneClassElement) =>
          /\ EmptyClass(TheBody) =>
                pc = "failed" /\ error = ValueError("No valid options provided")
          /\ Unterminated(TheBody) =>
                pc = "failed" /\ error = ValueError("Brackets do not match")
          /\ WrongCloser(TheBody) =>
                /\ pc = "failed" /\ error = ValueError("Invalid amino acid")
                /\ (IF TheBody[1] = "["
                    THEN NegatedAmino(TheBody, <<>>, None, FALSE, FALSE)
                    ELSE MultipleAmino(TheBody, <<>>, None, FALSE, FALSE)).error
                      = ValueError("Brackets do not match")
    /\ pc = "compiled" =>
          \A k \in 1..Len(elements) :
              (elements[k].kind \in {"MultipleAmino", "NegatedAmino"}
                  /\ ~elements[k].optional_c_terminus) => elements[k].options # {}

\* a negated class closed by "]" was rejected for an invalid amino acid
C25_Witness ==
    /\ pc = "failed"
    /\ OneClassElement
    /\ TheBody[1] = "{"
    /\ WrongCloser(TheBody)
    /\ error = ValueError("Invalid amino acid")

(***************************************************************************)
(* C26: the class `[>]`, whose body is the end-of-sequence marker alone,   *)
(* is legal: it compiles to a class element with no options and the        *)
(* end-of-sequence alternative.  parse_options rejects every class         *)
(* without options, this one too, so this fails.                           *)
(***************************************************************************)
C26_EndMarkerClassCompiles ==
    (JustConstructed /\ OneClassElement /\ TheBody = <<"[", ">", "]">>) =>
        /\ pc = "compiled"
        /\ elements[1].kind = "MultipleAmino"
        /\ elements[1].options = {}
        /\ elements[1].optional_c_terminus

(***************************************************************************)
(* C27: offset_ok(sequence, offset) is true exactly when the offset is     *)
(* inside the sequence, a start-anchored element has offset < max_repeats  *)
(* and an end-anchored element has offset >= len(sequence) - max_repeats,  *)
(* for elements of every kind.                                             *)
(***************************************************************************)
\* the offsets a caller can hand over: one before the sequence to one past
\* the position behind its last character
OffsetsAround == (0 - 1)..(Len(sequence) + 1)

C28_OffsetOkAtEnd ==
    SearchBegins =>
        \A k \in 1..Len(elements) :
            (elements[k].kind = "MultipleAmino" /\ elements[k].optional_c_terminus
                /\ ~elements[k].nterm /\ ~elements[k].cterm)
            => /\ offset_ok(elements[k], sequence, Len(sequence))
               /\ \A offset \in 0..(Len(sequence) - 1) :
                     offset_ok(elements[k], sequence, offset)

(***************************************************************************)
(* C29: self.match of an element without anchors.  Inside the sequence a   *)
(* literal hits on its amino acid, a class on its options, a negated class *)
(* on every other character, a wildcard on every character.  Outside the   *)
(* sequence nothing hits, except that a class with the end-of-sequence     *)
(* alternative hits with distance 0 at offset len(sequence) and only       *)
(* there.                                                                  *)
(***************************************************************************)
\* the element is a class that may stand for the end of the sequence
HasEndAlternative(e) == e.kind = "MultipleAmino" /\ e.optional_c_terminus

\* C29: where an unanchored element hits, and with what distance
C29_SinglePositionMatch ==
    SearchBegins =>
        \A k \in 1..Len(elements) : \A offset \in OffsetsAround :
            (~elements[k].nterm /\ ~elements[k].cterm) =>
                LET e       == elements[k]
                    m       == match(e, sequence, offset)
                    inside  == 0 <= offset /\ offset < Len(sequence)
                IN  /\ m.hit <=> \/ inside /\ CharFits(e, CharAt(sequence, offset))
                                 \/ HasEndAlternative(e) /\ offset = Len(sequence)
                    /\ (m.hit /\ inside) => m.distance = 1
                    /\ (m.hit /\ ~inside) => m.distance = 0

\* a search has returned on a non-empty sequence for an unanchored class with
\* the end-of-sequence alternative, which hits behind the last character and
\* not one further
C29_Witness ==
    /\ pc = "compiled"
    /\ find_done
    /\ Len(sequence) >= 1
    /\ HasEndAlternative(HeadElement)
    /\ ~HeadElement.nterm /\ ~HeadElement.cterm
    /\ match(HeadElement, sequence, Len(sequence)) = Match(TRUE, 0)
    /\ ~match(HeadElement, sequence, Len(sequence) + 1).hit
    /\ \E offset \in 0..(Len(sequence) - 1) : ~match(HeadElement, sequence, offset).hit

(***************************************************************************)
(* C30: find and find_all terminate.  The scan takes each offset of the    *)
(* sequence at most once, a run of an element's loop tries at most         *)
(* max_repeats - min_repeats + 1 repeat counts, and the calls are nested   *)
(* no deeper than the chain has elements.                                  *)
(***************************************************************************)
\* the repeat counts one run of the loop of match_including_following tries,
\* from the count repeat down, until it returns
RECURSIVE CountsTried(_, _, _, _)
CountsTried(self, seq, offset, repeat) ==
    LET e == elements[self]
    IN  IF repeat < e.min_repeats
        THEN {}
        ELSE IF repeat # 0 /\ (too_long(seq, offset, repeat)
                                 \/ ~repeat_matches(e, seq, offset, repeat))
        THEN {repeat} \cup CountsTried(self, seq, offset, repeat - 1)
        ELSE IF e.next_element # None
                  /\ ~match_including_following(elements, e.next_element, seq,
                                                offset + repeat).hit
        THEN {repeat} \cup CountsTried(self, seq, offset, repeat - 1)
        ELSE {repeat}

\* how deep the calls of match_including_following are nested below and
\* including the one of the element self
RECURSIVE DepthOfMatch(_, _, _, _)
DepthOfMatch(self, seq, offset, repeat) ==
    LET e == elements[self]
    IN  IF repeat < e.min_repeats
        THEN 1
        ELSE IF repeat # 0 /\ (too_long(seq, offset, repeat)
                                 \/ ~repeat_matches(e, seq, offset, repeat))
        THEN DepthOfMatch(self, seq, offset, repeat - 1)
        ELSE IF e.next_element # None
        THEN LET below == 1 + DepthOfMatch(e.next_element, seq, offset + repeat,
                                           elements[e.next_element].max_repeats)
             IN  IF match_including_following(elements, e.next_element, seq,
                                              offset + repeat).hit
                 THEN below
                 ELSE Max({below, DepthOfMatch(self, seq, offset, repeat - 1)})
        ELSE 1

\* the same for match_all_possible, whose loop runs through every count
RECURSIVE DepthOfMatchAll(_, _, _, _)
DepthOfMatchAll(self, seq, offset, repeat) ==
    LET e == elements[self]
    IN  IF repeat < e.min_repeats
        THEN 1
        ELSE IF repeat # 0 /\ (too_long(seq, offset, repeat)
                                 \/ ~repeat_matches(e, seq, offset, repeat))
        THEN DepthOfMatchAll(self, seq, offset, repeat - 1)
        ELSE IF e.next_element # None
        THEN Max({1 + DepthOfMatchAll(e.next_element, seq, offset + repeat,
                                      elements[e.next_element].max_repeats),
                  DepthOfMatchAll(self, seq, offset, repeat - 1)})
        ELSE DepthOfMatchAll(self, seq, offset, repeat - 1)

\* from max_repeats down to min_repeats there are this many repeat counts
CountsInRange(e) ==
    IF e.max_repeats < e.min_repeats THEN 0 ELSE e.max_repeats - e.min_repeats + 1

\* the loops of the chain are bounded and its calls nested no deeper than it
\* has elements; each element's successor is the element built before it
ChainEvaluationBounded ==
    pc = "compiled" =>
        /\ \A k \in 1..Len(elements) : elements[k].next_element = k - 1
        /\ \A offset \in 0..Len(sequence) :
              /\ DepthOfMatch(head, sequence, offset, HeadElement.max_repeats)
                    <= Len(elements)
              /\ DepthOfMatchAll(head, sequence, offset, HeadElement.max_repeats)
                    <= Len(elements)
              /\ \A k \in 1..Len(elements) :
                    Cardinality(CountsTried(k, sequence, offset, elements[k].max_repeats))
                        <= CountsInRange(elements[k])

\* a step of a scan takes the next offset or ends the scan, and the scan
\* never leaves the sequence
ScanAdvances ==
    /\ call = "find" =>
          /\ anchor_idx <= Len(sequence)
          /\ (anchor_idx' = anchor_idx + 1 /\ call' = "find") \/ call' = "ready"
    /\ call = "find_all" =>
          /\ index <= Len(sequence)
          /\ (index' = index + 1 /\ call' = "find_all") \/ call' = "ready"

====
